---- MODULE Spec2Model ----
(***************************************************************************)
(* State-machine model of the research pipeline: the background task       *)
(* process_research_query (app/api/routes.py), ResearchWorkflow            *)
(* (app/workflow/research_workflow.py) and the four agents it sequences    *)
(* (app/agents/*.py).  One query is followed from submission to the end of *)
(* its background task; a second task and the delete handler               *)
(* (delete_research_query) take part in the specifications that say so,    *)
(* one lets the store calls of the task raise, and one calls the agents'   *)
(* pure methods on their own.                                              *)
(*                                                                         *)
(* Numbers: progress fractions 0.0 / 1.0 are the integers 0 / 1; scores    *)
(* and confidences are integers in hundredths (0.5 is 50); a similarity    *)
(* is an exact quotient <<numerator, denominator>>.  A text is             *)
(* represented by its name and its stripped length.                        *)
(***************************************************************************)
EXTENDS Integers, Sequences, FiniteSets, TLC

VARIABLES
    query_id,   \* the id of the query whose background task is on the CPU
    query,      \* the submitted ResearchQuery: [regions, max_documents]
    pc,         \* position of the background task process_research_query
    scheduled,  \* graph engine: nodes triggered for the next step
    running,    \* graph engine: node awaiting its agent, or None
    ctx,        \* the workflow state dict ("context") of the run
    ret,        \* outcome of run_research: nothing yet, a result, or an error
    store,      \* persisted records by id: [query |-> ..., result |-> ...]
    parked,     \* the other background task, suspended at an await, or None
    deleter,    \* position of the delete_research_query handler
    call,       \* an agent method called on its own: arguments and return value
    invoked,    \* history: the nodes the engine has invoked
    failed,     \* history: nodes whose except branch ran, in order
    written,    \* history: state keys assigned by a node's success path
    snapshot,   \* history: the stage outputs when the first error was recorded
    provider_failed  \* history: whether a collaborator call has raised

vars == <<query_id, query, pc, scheduled, running, ctx, ret, store, parked,
          deleter, call, invoked, failed, written, snapshot, provider_failed>>

\* Python's Optional: None is the empty tuple, a present value v is <<v>>
None == <<>>

Some(v) == <<v>>

Val(o) == o[1]

(***************************************************************************)
(* Bounds of the model.                                                    *)
(***************************************************************************)
\* longest result list the search collaborator returns
MaxResults == 2

(***************************************************************************)
(* Small helpers.                                                          *)
(***************************************************************************)
Min(a, b) == IF a <= b THEN a ELSE b

Range(s) == {s[i] : i \in 1..Len(s)}

SeqsUpTo(S, n) == UNION {[1..k -> S] : k \in 0..n}

\* Python's s[:n]; a negative n counts from the end
Take(s, n) ==
    IF n >= 0 THEN SubSeq(s, 1, Min(n, Len(s)))
    ELSE SubSeq(s, 1, Len(s) + n)

\* the distinct elements of s in order of first occurrence (dict key order)
RECURSIVE Distinct(_)
Distinct(s) ==
    IF s = <<>> THEN <<>>
    ELSE LET init == Distinct(SubSeq(s, 1, Len(s) - 1))
             x    == s[Len(s)]
         IN  IF x \in Range(init) THEN init ELSE Append(init, x)

\* concatenation of a sequence of sequences
RECURSIVE Flatten(_)
Flatten(ss) == IF ss = <<>> THEN <<>> ELSE Head(ss) \o Flatten(Tail(ss))

(***************************************************************************)
(* QueryStatus (app/models/query.py).                                      *)
(***************************************************************************)
PENDING     == "pending"
SEARCHING   == "searching"
EXTRACTING  == "extracting"
COMPARING   == "comparing"
SUMMARIZING == "summarizing"
COMPLETED   == "completed"
FAILED      == "failed"

QueryStatus ==
    {PENDING, SEARCHING, EXTRACTING, COMPARING, SUMMARIZING, COMPLETED, FAILED}

(***************************************************************************)
(* The submitted queries.  regions is None or a list; max_documents is     *)
(* None or a positive number.  The query text and document_types only      *)
(* shape the string sent to the search collaborator, whose answer is       *)
(* arbitrary here, and are left out.                                       *)
(***************************************************************************)
Queries ==
    [regions       : {None, Some(<<"EU">>), Some(<<"EU", "US">>)},
     max_documents : {None, Some(1)}]

\* Python's "x or default" for an optional list and an optional number
ListOr(x, default) == IF x = None \/ x = Some(<<>>) THEN default ELSE Val(x)

NumberOr(x, default) == IF x = None \/ x = Some(0) THEN default ELSE Val(x)

DefaultMaxDocuments == 10

(***************************************************************************)
(* SearchAgent (app/agents/search_agent.py).                               *)
(*                                                                         *)
(* A raw result of the search collaborator is reduced to what the agent    *)
(* reads: its title, the region keyword classes found in content or URL    *)
(* (kws), the provider score in tenths (None when absent), whether the    *)
(* URL is on an official domain, whether published_date is present and     *)
(* whether the content is longer than 1000 characters.                     *)
(***************************************************************************)
RawResults ==
    { [title |-> "EU AI Act", kws |-> {"EU"}, score |-> Some(4),
       official |-> TRUE, dated |-> FALSE, long |-> FALSE],
      [title |-> "US Executive Order", kws |-> {"US"}, score |-> Some(8),
       official |-> TRUE, dated |-> TRUE, long |-> TRUE],
      [title |-> "OECD Principles", kws |-> {}, score |-> Some(6),
       official |-> FALSE, dated |-> TRUE, long |-> TRUE],
      [title |-> "Blog post", kws |-> {}, score |-> None,
       official |-> FALSE, dated |-> FALSE, long |-> FALSE] }

\* a collaborator call either raises one of these or returns its answer
ProviderErrors == {"timeout"}

SearchResponses == SeqsUpTo(RawResults, MaxResults)

\* regions is an optional list (the workflow always passes a list)
_extract_region(result, regions) ==
    IF regions # None /\ Len(Val(regions)) = 1 THEN Val(regions)[1]
    ELSE IF "EU" \in result.kws THEN "EU"
    ELSE IF "US" \in result.kws THEN "US"
    ELSE IF "UK" \in result.kws THEN "UK"
    ELSE IF regions = None THEN "Global"
    ELSE IF Val(regions) # <<>> THEN Val(regions)[1]
    ELSE "Unknown"

_calculate_relevance_score(result) ==
    Min( (IF result.score # None THEN Val(result.score) * 5 ELSE 0)
         + (IF result.official THEN 30 ELSE 0)
         + (IF result.dated THEN 10 ELSE 0)
         + (IF result.long THEN 10 ELSE 0),
         100 )

MakeDocument(result, regions) ==
    [title           |-> result.title,
     region          |-> _extract_region(result, regions),
     relevance_score |-> _calculate_relevance_score(result)]

\* variant: a document goes in front of those of equal score
RECURSIVE SortByRelevanceUnstable(_)
SortByRelevanceUnstable(docs) ==
    IF docs = <<>> THEN <<>>
    ELSE LET init == SortByRelevanceUnstable(SubSeq(docs, 1, Len(docs) - 1))
             d    == docs[Len(docs)]
             k    == Cardinality({i \in 1..Len(init) :
                         init[i].relevance_score > d.relevance_score})
         IN  SubSeq(init, 1, k) \o <<d>> \o SubSeq(init, k + 1, Len(init))

\* list.sort(key=relevance_score, reverse=True): stable, descending
RECURSIVE SortByRelevance(_)
SortByRelevance(docs) ==
    IF docs = <<>> THEN <<>>
    ELSE LET init == SortByRelevance(SubSeq(docs, 1, Len(docs) - 1))
             d    == docs[Len(docs)]
             k    == Cardinality({i \in 1..Len(init) :
                         init[i].relevance_score >= d.relevance_score})
         IN  SubSeq(init, 1, k) \o <<d>> \o SubSeq(init, k + 1, Len(init))

_process_search_results(results, regions) ==
    SortByRelevance([i \in 1..Len(results) |-> MakeDocument(results[i], regions)])

\* search_documents on a collaborator answer that is a list of results
search_documents(results, regions) == _process_search_results(results, regions)

(***************************************************************************)
(* ExtractAgent (app/agents/extract_agent.py).                             *)
(*                                                                         *)
(* An answer of the text-generation collaborator to an extraction prompt   *)
(* is a failure ("error") or a text of one of three kinds: without any     *)
(* complete JSON array ("nojson": no "[" or no "]", as when the text is cut *)
(* off), with an array that does not parse ("badjson"), or with a parsable *)
(* array ("json").  items are the entries of the array (for "nojson" and   *)
(* "badjson": the clause_text lines a pattern scan of the text finds).     *)
(***************************************************************************)
Item(text, len, ctype, topic, has_confidence, confidence) ==
    [text |-> text, len |-> len, clause_type |-> ctype, topic |-> topic,
     has_confidence |-> has_confidence, confidence |-> confidence]

ExtractResponses ==
    { [kind |-> "error", items |-> <<>>],
      [kind |-> "nojson", items |-> <<>>],
      [kind |-> "nojson",
       items |-> << Item("cut off", 30, "?", "?", FALSE, None) >>],
      [kind |-> "badjson",
       items |-> << Item("scanned", 30, "?", "?", FALSE, None),
                    Item("cut", 9, "?", "?", FALSE, None) >>],
      [kind |-> "json",
       items |-> << Item("must assess", 40, "requirement", "Safety", TRUE, Some(95)),
                    Item("brief", 15, "definition", "privacy", TRUE, Some(90)),
                    Item("tiny", 8, "other", "privacy", TRUE, Some(90)) >>],
      [kind |-> "json",
       items |-> << Item("shall not", 40, "prohibition", "safety", FALSE, None),
                    Item("may log", 40, "requirement", "privacy", TRUE, Some(40)),
                    Item("unrated", 40, "requirement", "privacy", TRUE, None) >>] }

\* variant: the region is copied as it is
MakeClauseRawRegion(item, document) ==
    [clause_text      |-> item.text,
     len              |-> item.len,
     clause_type      |-> item.clause_type,
     topic            |-> item.topic,
     jurisdiction     |-> document.region,
     document_source  |-> document.title,
     confidence_score |-> IF item.has_confidence THEN item.confidence
                          ELSE Some(80)]

\* document.region or "Unknown": a document without region has region ""
\* here (None and "" are both falsy)
JurisdictionOf(document) ==
    IF document.region = "" THEN "Unknown" ELSE document.region

MakeClause(item, document) ==
    [clause_text      |-> item.text,
     len              |-> item.len,
     clause_type      |-> item.clause_type,
     topic            |-> item.topic,
     jurisdiction     |-> JurisdictionOf(document),
     document_source  |-> document.title,
     confidence_score |-> IF item.has_confidence THEN item.confidence
                          ELSE Some(80)]

MakeFallbackClause(item, document) ==
    [clause_text      |-> item.text,
     len              |-> item.len,
     clause_type      |-> "requirement",
     topic            |-> "general",
     jurisdiction     |-> JurisdictionOf(document),
     document_source  |-> document.title,
     confidence_score |-> Some(60)]

LongerThan10(x) == x.len > 10

_fallback_extraction(response, document) ==
    LET kept == SelectSeq(response.items, LongerThan10)
    IN  [i \in 1..Len(kept) |-> MakeFallbackClause(kept[i], document)]

_parse_extraction_response(response, document) ==
    IF response.kind = "nojson" THEN <<>>
    ELSE IF response.kind = "badjson" THEN _fallback_extraction(response, document)
    ELSE LET kept == SelectSeq(response.items, LongerThan10)
         IN  [i \in 1..Len(kept) |-> MakeClause(kept[i], document)]

\* a failed collaborator call is logged and yields no clause
_extract_from_document(response, document) ==
    IF response.kind = "error" THEN <<>>
    ELSE _parse_extraction_response(response, document)

\* responses[i] is the collaborator's answer for documents[i]
extract_clauses(documents, responses) ==
    Flatten([i \in 1..Len(documents) |->
                _extract_from_document(responses[i], documents[i])])

IsValidClause(clause) ==
    /\ clause.len > 20
    /\ clause.confidence_score # None
    /\ Val(clause.confidence_score) # 0
    /\ Val(clause.confidence_score) > 50

\* variant: nothing is filtered
validate_clauses_off(clauses) == clauses

validate_clauses(clauses) == SelectSeq(clauses, IsValidClause)

(***************************************************************************)
(* CompareAgent (app/agents/compare_agent.py).                             *)
(*                                                                         *)
(* The collaborator's answer to a comparison prompt is a failure, a text   *)
(* without a JSON object, one whose object does not parse, a parsable      *)
(* object, or a parsable object whose fields do not fit Comparison         *)
(* ("misfit": the model's validation raises).                              *)
(***************************************************************************)
\* str.lower() on the topics that occur
Lower(topic) == IF topic = "Safety" THEN "safety" ELSE topic

\* _group_clauses: the dict of dicts as ordered keys plus buckets
GroupTopics(clauses) ==
    Distinct([i \in 1..Len(clauses) |-> Lower(clauses[i].topic)])

GroupJurisdictions(clauses, topic) ==
    LET OnTopic(c) == Lower(c.topic) = topic
        sel == SelectSeq(clauses, OnTopic)
    IN  Distinct([i \in 1..Len(sel) |-> sel[i].jurisdiction])

\* variant: a clause is put in front of its bucket
GroupBucketPrepend(clauses, topic, jurisdiction) ==
    LET InBucket(c) == Lower(c.topic) = topic /\ c.jurisdiction = jurisdiction
        bucket == SelectSeq(clauses, InBucket)
    IN  [i \in 1..Len(bucket) |-> bucket[Len(bucket) + 1 - i]]

\* variant: the bucket is matched on the topic as written
GroupBucketCased(clauses, topic, jurisdiction) ==
    LET InBucket(c) == c.topic = topic /\ c.jurisdiction = jurisdiction
    IN  SelectSeq(clauses, InBucket)

GroupBucket(clauses, topic, jurisdiction) ==
    LET InBucket(c) == Lower(c.topic) = topic /\ c.jurisdiction = jurisdiction
    IN  SelectSeq(clauses, InBucket)

\* the collaborator's answers to a comparison prompt; score in hundredths
CompareResponses ==
    { [kind |-> "error", score |-> None],
      [kind |-> "nojson", score |-> None],
      [kind |-> "badjson", score |-> None],
      [kind |-> "misfit", score |-> None],
      [kind |-> "json", score |-> Some(75)],
      [kind |-> "json", score |-> Some(150)] }

_create_fallback_comparison(topic, jurisdictions) ==
    [topic |-> topic, source |-> "template",
     jurisdictions_compared |-> jurisdictions, comparison_score |-> Some(50)]

_parse_comparison_response(response, topic, jurisdictions) ==
    IF response.kind = "json"
    THEN [topic |-> topic, source |-> "collaborator",
          jurisdictions_compared |-> jurisdictions,
          comparison_score |-> response.score]
    ELSE _create_fallback_comparison(topic, jurisdictions)

\* an optional Comparison: None when the collaborator call or the
\* construction of the Comparison raised
_compare_topic(response, topic, jurisdictions) ==
    IF response.kind \in {"error", "misfit"} THEN None
    ELSE Some(_parse_comparison_response(response, topic, jurisdictions))

\* variant: every topic is compared
ComparedTopicsAny(clauses) ==
    LET Some1(t) == Len(GroupJurisdictions(clauses, t)) > 0
    IN  SelectSeq(GroupTopics(clauses), Some1)

\* the topics compare_clauses sends to the collaborator, in dict order
ComparedTopics(clauses) ==
    LET Multi(t) == Len(GroupJurisdictions(clauses, t)) > 1
    IN  SelectSeq(GroupTopics(clauses), Multi)

\* responses[t] is the collaborator's answer for topic t
compare_clauses(clauses, responses) ==
    LET topics == ComparedTopics(clauses)
    IN  Flatten([i \in 1..Len(topics) |->
            _compare_topic(responses[topics[i]], topics[i],
                           GroupJurisdictions(clauses, topics[i]))])

\* _group_clauses as a whole: the topic keys in dict order, under each its
\* jurisdiction keys in dict order, under each its list of clauses
_group_clauses(clauses) ==
    LET topics == GroupTopics(clauses)
    IN  [i \in 1..Len(topics) |->
           [topic |-> topics[i],
            jurisdictions |->
               LET js == GroupJurisdictions(clauses, topics[i])
               IN  [k \in 1..Len(js) |->
                      [jurisdiction |-> js[k],
                       clauses |-> GroupBucket(clauses, topics[i], js[k])]]]]

\* str.lower() on the clause types that occur
LowerType(clause_type) ==
    IF clause_type = "Prohibition" THEN "prohibition" ELSE clause_type

\* A quotient is the pair <<numerator, denominator>>.
\* variant: the overlap is divided by the sum of the sizes
JaccardOfSum(A, B) ==
    IF A \cup B = {} THEN <<0, 1>>
    ELSE <<Cardinality(A \cap B), Cardinality(A) + Cardinality(B)>>

\* len(A & B) / len(A | B) if A | B else 0
Jaccard(A, B) ==
    IF A \cup B = {} THEN <<0, 1>>
    ELSE <<Cardinality(A \cap B), Cardinality(A \cup B)>>

\* (t * 0.7) + (y * 0.3) for two quotients, in tenths
\* variant: both quotients weigh the same
WeightedEven(t, y) == <<5 * t[1] * y[2] + 5 * y[1] * t[2], 10 * t[2] * y[2]>>

Weighted(t, y) == <<7 * t[1] * y[2] + 3 * y[1] * t[2], 10 * t[2] * y[2]>>

\* variant: the overlap is measured against the first list alone
_calculate_jurisdiction_similarity_first(clauses1, clauses2) ==
    IF clauses1 = <<>> \/ clauses2 = <<>> THEN <<0, 1>>
    ELSE LET topics1 == {Lower(c.topic) : c \in Range(clauses1)}
             topics2 == {Lower(c.topic) : c \in Range(clauses2)}
             types1  == {LowerType(c.clause_type) : c \in Range(clauses1)}
             types2  == {LowerType(c.clause_type) : c \in Range(clauses2)}
         IN  Weighted(<<Cardinality(topics1 \cap topics2), Cardinality(topics1)>>,
                      <<Cardinality(types1 \cap types2), Cardinality(types1)>>)

_calculate_jurisdiction_similarity(clauses1, clauses2) ==
    IF clauses1 = <<>> \/ clauses2 = <<>> THEN <<0, 1>>
    ELSE LET topics1 == {Lower(c.topic) : c \in Range(clauses1)}
             topics2 == {Lower(c.topic) : c \in Range(clauses2)}
             types1  == {LowerType(c.clause_type) : c \in Range(clauses1)}
             types2  == {LowerType(c.clause_type) : c \in Range(clauses2)}
         IN  Weighted(Jaccard(topics1, topics2), Jaccard(types1, types2))

\* identify_regulatory_gaps: jurisdiction_topics as its keys in dict order
\* and the topic set of a key
JurisdictionKeys(clauses) ==
    Distinct([i \in 1..Len(clauses) |-> clauses[i].jurisdiction])

\* the entry similarity_scores[f"{j1}_vs_{j2}"] = score of the two lists
\* jurisdiction_clauses[j1] and jurisdiction_clauses[j2]; the key is kept as
\* its three parts
SimilarityEntry(clauses, j1, j2) ==
    LET Of1(c) == c.jurisdiction = j1
        Of2(c) == c.jurisdiction = j2
    IN  [key   |-> <<j1, "_vs_", j2>>,
         value |-> _calculate_jurisdiction_similarity(
                       SelectSeq(clauses, Of1), SelectSeq(clauses, Of2))]

\* variant: every jurisdiction is paired with every other, in both orders
calculate_similarity_scores_both(clauses) ==
    LET js == JurisdictionKeys(clauses)
        Other(i) == SelectSeq([k \in 1..Len(js) |-> k], LAMBDA k : k # i)
    IN  Flatten([i \in 1..Len(js) |->
                    [k \in 1..Len(Other(i)) |->
                        SimilarityEntry(clauses, js[i], js[Other(i)[k]])]])

\* calculate_similarity_scores: the dict as its entries in insertion order
calculate_similarity_scores(clauses) ==
    LET js == JurisdictionKeys(clauses)
    IN  Flatten([i \in 1..Len(js) |->
                    [k \in 1..(Len(js) - i) |->
                        SimilarityEntry(clauses, js[i], js[i + k])]])

JurisdictionTopics(clauses, jurisdiction) ==
    {Lower(c.topic) : c \in {d \in Range(clauses) : d.jurisdiction = jurisdiction}}

AllTopics(clauses) == {Lower(c.topic) : c \in Range(clauses)}

\* the statement "Topic '<topic>' is missing in jurisdictions: <missing>"
GapStatement(clauses, topic) ==
    LET Lacks(j) == topic \notin JurisdictionTopics(clauses, j)
    IN  [topic |-> topic, missing |-> SelectSeq(JurisdictionKeys(clauses), Lacks)]

\* variant: a statement is appended for every topic
identify_regulatory_gaps_all(clauses, order) ==
    [i \in 1..Len(order) |-> GapStatement(clauses, order[i])]

\* order is the order in which the set all_topics is iterated
identify_regulatory_gaps(clauses, order) ==
    LET statements == [i \in 1..Len(order) |-> GapStatement(clauses, order[i])]
        Lacking(s) == s.missing # <<>>
    IN  SelectSeq(statements, Lacking)

(***************************************************************************)
(* SummarizeAgent (app/agents/summarize_agent.py).                         *)
(*                                                                         *)
(* The collaborator's answer is a failure, a text without a JSON object,   *)
(* one that does not parse, a parsable object, or a parsable object whose  *)
(* fields do not fit Summary ("misfit": the model's validation raises).    *)
(***************************************************************************)
SummaryResponses == {"error", "nojson", "badjson", "json", "misfit"}

\* the documents part of the prompt sent to the collaborator
_summarize_documents(documents) ==
    IF documents = <<>> THEN "No documents were analyzed."
    ELSE "Analyzed documents from the following sources"

_create_fallback_summary(documents, clauses, comparisons) ==
    [source |-> "template",
     counts |-> Some(<<Len(documents), Len(clauses), Len(comparisons)>>)]

_parse_summary_response(response, documents, clauses, comparisons) ==
    IF response = "json" THEN [source |-> "collaborator", counts |-> None]
    ELSE _create_fallback_summary(documents, clauses, comparisons)

\* whether generate_summary raises on this answer
SummaryRaises(response) == response \in {"error", "misfit"}

generate_summary(response, documents, clauses, comparisons) ==
    _parse_summary_response(response, documents, clauses, comparisons)

(***************************************************************************)
(* ResearchWorkflow (app/workflow/research_workflow.py).                   *)
(***************************************************************************)
END == "__end__"

Nodes == {"search", "extract", "compare", "summarize", "finalize"}

ProgressKeys ==
    {"search_agent", "extract_agent", "compare_agent", "summarize_agent"}

\* _create_workflow: the entry point, add_edge and add_conditional_edges
entry_point == "search"

edges ==
    { <<"search", "extract">>, <<"extract", "compare">>,
      <<"compare", "summarize">>, <<"summarize", "finalize">>,
      <<"finalize", END>> }

conditional_edges ==
    [ search    |-> [continue |-> "extract",   error |-> END],
      extract   |-> [continue |-> "compare",   error |-> END],
      compare   |-> [continue |-> "summarize", error |-> END],
      summarize |-> [continue |-> "finalize",  error |-> END] ]

\* Python truth of the optional error message (a sequence of parts)
Truthy(o) == o # None /\ Val(o) # <<>>

_should_continue(state) == IF Truthy(state.error) THEN "error" ELSE "continue"

\* variant: a node that recorded an error is run again
SuccessorsRetry(node, state) ==
    IF Truthy(state.error) THEN {node}
    ELSE {e[2] : e \in {d \in edges : d[1] = node}}

\* The compiled graph: when a node has returned, every target of one of its
\* edges is triggered, and so is the target its conditional edge selects.
Successors(node, state) ==
    {e[2] : e \in {d \in edges : d[1] = node}}
    \cup (IF node \in DOMAIN conditional_edges
          THEN {conditional_edges[node][_should_continue(state)]}
          ELSE {})

Triggered(node, state) == Successors(node, state) \ {END}

\* run_research: the initial state built from the query
initial_state(research_query) ==
    [regions       |-> ListOr(research_query.regions, <<>>),
     max_documents |-> NumberOr(research_query.max_documents, DefaultMaxDocuments),
     status        |-> PENDING,
     progress      |-> [k \in ProgressKeys |-> 0],
     documents     |-> <<>>,
     clauses       |-> <<>>,
     comparisons   |-> <<>>,
     summary       |-> None,
     result        |-> None,
     error         |-> None]

\* variant: the progress key is marked complete before the search
search_node_begin_complete(state) ==
    [state EXCEPT !.status = SEARCHING, !.progress["search_agent"] = 1]

\* _search_node, up to the await
search_node_begin(state) ==
    [state EXCEPT !.status = SEARCHING, !.progress["search_agent"] = 0]

\* _search_node, after search_documents has returned `found`
search_node_success(state, found) ==
    LET documents == IF state.max_documents # 0
                     THEN Take(found, state.max_documents) ELSE found
    IN  [state EXCEPT !.documents = documents, !.progress["search_agent"] = 1]

search_node_except(state, e) ==
    [state EXCEPT !.error = Some(<<"Search failed", e>>), !.status = FAILED]

extract_node_begin(state) ==
    [state EXCEPT !.status = EXTRACTING, !.progress["extract_agent"] = 0]

extract_node_success(state, validated_clauses) ==
    [state EXCEPT !.clauses = validated_clauses, !.progress["extract_agent"] = 1]

compare_node_begin(state) ==
    [state EXCEPT !.status = COMPARING, !.progress["compare_agent"] = 0]

compare_node_success(state, comparisons) ==
    [state EXCEPT !.comparisons = comparisons, !.progress["compare_agent"] = 1]

summarize_node_begin(state) ==
    [state EXCEPT !.status = SUMMARIZING, !.progress["summarize_agent"] = 0]

\* variant: the summary is not stored
summarize_node_success_dropped(state, summary) ==
    [state EXCEPT !.progress["summarize_agent"] = 1]

summarize_node_success(state, summary) ==
    [state EXCEPT !.summary = Some(summary), !.progress["summarize_agent"] = 1]

\* variant: the except branch marks the stage complete
summarize_node_except_complete(state, e) ==
    [state EXCEPT !.error = Some(<<"Summarization failed", e>>), !.status = FAILED,
                  !.progress["summarize_agent"] = 1]

summarize_node_except(state, e) ==
    [state EXCEPT !.error = Some(<<"Summarization failed", e>>), !.status = FAILED]

\* ResearchResult(...) as built by _finalize_node
MakeResult(state) ==
    [documents         |-> state.documents,
     extracted_clauses |-> state.clauses,
     comparisons       |-> state.comparisons,
     summary           |-> state.summary]

finalize_node(state) ==
    [state EXCEPT !.result = Some(MakeResult(state)), !.status = COMPLETED]

\* variant: the failure is read off the status instead of the error field
run_research_error_by_status(final_state) ==
    IF final_state.status = FAILED
    THEN Some(<<"Workflow failed">> \o Val(final_state.error))
    ELSE None

\* run_research, after ainvoke: the error it raises, if any
run_research_error(final_state) ==
    IF Truthy(final_state.error)
    THEN Some(<<"Workflow failed">> \o Val(final_state.error))
    ELSE None

(***************************************************************************)
(* The persisted records (app/api/routes.py, app/models/query.py): for     *)
(* each id the document of research_queries and the document of            *)
(* research_results, each None while absent.  The progress dict of a       *)
(* query record is None while it is the empty dict.                        *)
(***************************************************************************)
\* the ObjectIds in use
QueryIds == {"id1", "id2"}

\* variant: the record starts with the progress dict of the schema example
NewQueryRecordExample ==
    [status |-> "pending", progress |-> Some([k \in {"search_agent", "extract_agent", "compare_agent", "summarize_agent"} |-> 0]),
     error_message |-> None]

\* submit_research_query: the record inserted for a new query
NewQueryRecord ==
    [status |-> PENDING, progress |-> None, error_message |-> None]

NoRecords == [query |-> None, result |-> None]

\* variant: every task addresses the same record
ByIdShared(id) == "id1"

\* the filter {"_id": ObjectId(query_id)}
ById(id) == id

\* collection.find_one(filter) on research_queries
find_one(records, id) == records[id].query

\* collection.update_one(filter, {"$set": changes}) on research_queries:
\* without upsert, so a filter that matches nothing changes nothing
update_one(records, id, changes) ==
    IF records[id].query = None THEN records
    ELSE LET old == Val(records[id].query)
             new == [f \in DOMAIN old |->
                        IF f \in DOMAIN changes THEN changes[f] ELSE old[f]]
         IN  [records EXCEPT ![id].query = Some(new)]

\* variant: the result document is not written
insert_one_dropped(records, id, result) == records

\* results_collection.insert_one(result_dict)
insert_one(records, id, result) == [records EXCEPT ![id].result = Some(result)]

\* collection.delete_one(filter); coll is "query" or "result"
delete_one(records, id, coll) == [records EXCEPT ![id][coll] = None]

(***************************************************************************)
(* The state machine.                                                      *)
(***************************************************************************)
NoReturn == [returned |-> FALSE, result |-> None, error |-> None]

\* the stage outputs held by a state dict
Outputs(state) ==
    [documents |-> state.documents, clauses |-> state.clauses,
     comparisons |-> state.comparisons, summary |-> state.summary]

\* no delete request is made
NoDelete == [pc |-> "absent", ok |-> FALSE]

\* submit_research_query has inserted the record of "id1" and queued its task
Submitted ==
    /\ query_id = "id1"
    /\ query \in Queries
    /\ pc = "queued"
    /\ scheduled = {}
    /\ running = None
    /\ ctx = initial_state(query)
    /\ ret = NoReturn
    /\ store = [id \in QueryIds |->
                    IF id = "id1" THEN [query |-> Some(NewQueryRecord), result |-> None]
                    ELSE NoRecords]
    /\ invoked = {}
    /\ failed = <<>>
    /\ written = {}
    /\ snapshot = None
    /\ provider_failed = FALSE

Init == Submitted /\ parked = None /\ deleter = NoDelete /\ call = None

history == <<invoked, failed, written, snapshot, provider_failed>>

\* what no step of the task on the CPU changes: its arguments, the other
\* task, the delete handler and the separate method call
env == <<query_id, query, parked, deleter, call>>

\* process_research_query: the first update of the query record
ProcessStart ==
    /\ pc = "queued"
    /\ store' = update_one(store, ById(query_id), [status |-> SEARCHING])
    /\ pc' = "run"
    /\ UNCHANGED <<env, scheduled, running, ctx, ret, history>>

\* run_research: build the initial state and invoke the graph
RunResearchStart ==
    /\ pc = "run"
    /\ ctx' = initial_state(query)
    /\ scheduled' = {entry_point}
    /\ pc' = "graph"
    /\ UNCHANGED <<env, running, ret, store, history>>

\* the engine starts a triggered node, which runs up to its await
CanStart(node) == pc = "graph" /\ running = None /\ node \in scheduled

Begin(node, state) ==
    /\ ctx' = state
    /\ running' = Some(node)
    /\ scheduled' = scheduled \ {node}
    /\ invoked' = invoked \cup {node}
    /\ UNCHANGED <<env, pc, ret, store, failed, written, snapshot, provider_failed>>

\* a node returns `state`; the engine triggers its successors
Return(node, state) ==
    /\ ctx' = state
    /\ running' = None
    /\ scheduled' = Triggered(node, state)
    /\ UNCHANGED <<env, pc, ret, store, invoked>>

\* bookkeeping of a node's success path, which assigns state[key]
Succeeded(key) ==
    /\ written' = written \cup {key}
    /\ UNCHANGED <<failed, snapshot>>

\* bookkeeping of a node's except branch
Excepted(node) ==
    /\ failed' = IF node \in Range(failed) THEN failed ELSE Append(failed, node)
    /\ snapshot' = IF snapshot = None THEN Some(Outputs(ctx)) ELSE snapshot
    /\ UNCHANGED written

SearchStart ==
    /\ CanStart("search")
    /\ Begin("search", search_node_begin(ctx))

SearchReturn ==
    /\ running = Some("search")
    /\ \E results \in SearchResponses :
          Return("search",
                 search_node_success(ctx, search_documents(results, Some(ctx.regions))))
    /\ Succeeded("documents")
    /\ UNCHANGED provider_failed

SearchRaise ==
    /\ running = Some("search")
    /\ \E e \in ProviderErrors : Return("search", search_node_except(ctx, e))
    /\ Excepted("search")
    /\ provider_failed' = TRUE

ExtractStart ==
    /\ CanStart("extract")
    /\ Begin("extract", extract_node_begin(ctx))

\* extract_clauses swallows every collaborator failure, so the node's
\* except branch is never taken
ExtractReturn ==
    /\ running = Some("extract")
    /\ \E responses \in [1..Len(ctx.documents) -> ExtractResponses] :
          /\ Return("extract",
                    extract_node_success(ctx,
                        validate_clauses(extract_clauses(ctx.documents, responses))))
          /\ provider_failed' =
                (provider_failed
                 \/ \E i \in DOMAIN responses : responses[i].kind = "error")
    /\ Succeeded("clauses")

CompareStart ==
    /\ CanStart("compare")
    /\ Begin("compare", compare_node_begin(ctx))

\* compare_clauses swallows every collaborator failure as well
CompareReturn ==
    /\ running = Some("compare")
    /\ \E responses \in [Range(ComparedTopics(ctx.clauses)) -> CompareResponses] :
          /\ Return("compare",
                    compare_node_success(ctx, compare_clauses(ctx.clauses, responses)))
          /\ provider_failed' =
                (provider_failed
                 \/ \E t \in DOMAIN responses : responses[t].kind = "error")
    /\ Succeeded("comparisons")

SummarizeStart ==
    /\ CanStart("summarize")
    /\ Begin("summarize", summarize_node_begin(ctx))

SummarizeReturn ==
    /\ running = Some("summarize")
    /\ \E response \in SummaryResponses :
          /\ ~SummaryRaises(response)
          /\ Return("summarize",
                    summarize_node_success(ctx,
                        generate_summary(response, ctx.documents, ctx.clauses,
                                         ctx.comparisons)))
    /\ Succeeded("summary")
    /\ UNCHANGED provider_failed

SummarizeRaise ==
    /\ running = Some("summarize")
    /\ \E response \in SummaryResponses :
          /\ SummaryRaises(response)
          /\ Return("summarize", summarize_node_except(ctx, response))
          /\ provider_failed' = (provider_failed \/ response = "error")
    /\ Excepted("summarize")

\* _finalize_node awaits nothing: it runs in one step
Finalize ==
    /\ CanStart("finalize")
    /\ ctx' = finalize_node(ctx)
    /\ scheduled' = Triggered("finalize", ctx')
    /\ invoked' = invoked \cup {"finalize"}
    /\ UNCHANGED <<env, pc, running, ret, store,
                   failed, written, snapshot, provider_failed>>

\* ainvoke returns when no node is triggered
GraphEnded == pc = "graph" /\ running = None /\ scheduled = {}

RunResearchRaise ==
    /\ GraphEnded
    /\ run_research_error(ctx) # None
    /\ ret' = [returned |-> TRUE, result |-> None, error |-> run_research_error(ctx)]
    /\ pc' = "mark_failed"
    /\ UNCHANGED <<env, scheduled, running, ctx, store, history>>

RunResearchReturn ==
    /\ GraphEnded
    /\ run_research_error(ctx) = None
    /\ ret' = [returned |-> TRUE, result |-> ctx.result, error |-> None]
    /\ pc' = "save_result"
    /\ UNCHANGED <<env, scheduled, running, ctx, store, history>>

\* process_research_query: insert the result record; a None result has no
\* dict() and the task goes to its except branch
SaveResult ==
    /\ pc = "save_result"
    /\ IF ret.result # None
       THEN /\ store' = insert_one(store, ById(query_id), Val(ret.result))
            /\ pc' = "mark_completed"
            /\ ret' = ret
       ELSE /\ ret' = [ret EXCEPT !.error = Some(<<"no result">>)]
            /\ pc' = "mark_failed"
            /\ store' = store
    /\ UNCHANGED <<env, scheduled, running, ctx, history>>

MarkCompleted ==
    /\ pc = "mark_completed"
    /\ store' = update_one(store, ById(query_id),
                           [status   |-> COMPLETED,
                            progress |-> Some([k \in ProgressKeys |-> 1])])
    /\ pc' = "done"
    /\ UNCHANGED <<env, scheduled, running, ctx, ret, history>>

MarkFailed ==
    /\ pc = "mark_failed"
    /\ store' = update_one(store, ById(query_id),
                           [status |-> FAILED, error_message |-> ret.error])
    /\ pc' = "done"
    /\ UNCHANGED <<env, scheduled, running, ctx, ret, history>>

Next ==
    \/ ProcessStart
    \/ RunResearchStart
    \/ SearchStart
    \/ SearchReturn
    \/ SearchRaise
    \/ ExtractStart
    \/ ExtractReturn
    \/ CompareStart
    \/ CompareReturn
    \/ SummarizeStart
    \/ SummarizeReturn
    \/ SummarizeRaise
    \/ Finalize
    \/ RunResearchRaise
    \/ RunResearchReturn
    \/ SaveResult
    \/ MarkCompleted
    \/ MarkFailed

Spec == Init /\ [][Next]_vars

\* The event loop runs every task that is ready, and every collaborator call
\* returns or raises.
FairSpec == Spec /\ WF_vars(Next)

(***************************************************************************)
(* Two background tasks on the one event loop.  Only one task is on the    *)
(* CPU; at each await (every state of the task above is one) the loop may  *)
(* suspend it and resume the other, which is what Switch does.  The two    *)
(* tasks share the store and nothing else.                                 *)
(***************************************************************************)
\* the local state of the task on the CPU
Task ==
    [query_id |-> query_id, query |-> query, pc |-> pc, scheduled |-> scheduled,
     running |-> running, ctx |-> ctx, ret |-> ret, invoked |-> invoked,
     failed |-> failed, written |-> written, snapshot |-> snapshot,
     provider_failed |-> provider_failed]

\* background_tasks.add_task(process_research_query, id, research_query)
QueuedTask(id, research_query) ==
    [query_id |-> id, query |-> research_query, pc |-> "queued", scheduled |-> {},
     running |-> None, ctx |-> initial_state(research_query), ret |-> NoReturn,
     invoked |-> {}, failed |-> <<>>, written |-> {}, snapshot |-> None,
     provider_failed |-> FALSE]

Switch ==
    /\ parked # None
    /\ parked' = Some(Task)
    /\ query_id' = Val(parked).query_id
    /\ query' = Val(parked).query
    /\ pc' = Val(parked).pc
    /\ scheduled' = Val(parked).scheduled
    /\ running' = Val(parked).running
    /\ ctx' = Val(parked).ctx
    /\ ret' = Val(parked).ret
    /\ invoked' = Val(parked).invoked
    /\ failed' = Val(parked).failed
    /\ written' = Val(parked).written
    /\ snapshot' = Val(parked).snapshot
    /\ provider_failed' = Val(parked).provider_failed
    /\ UNCHANGED <<store, deleter, call>>

\* the two queries submitted; each asks for one document
ConcQueries ==
    [id1 |-> [regions |-> None, max_documents |-> Some(1)],
     id2 |-> [regions |-> Some(<<"EU">>), max_documents |-> Some(1)]]

ConcInit ==
    /\ query_id = "id1"
    /\ query = ConcQueries["id1"]
    /\ pc = "queued"
    /\ scheduled = {}
    /\ running = None
    /\ ctx = initial_state(ConcQueries["id1"])
    /\ ret = NoReturn
    /\ store = [id \in QueryIds |-> [query |-> Some(NewQueryRecord), result |-> None]]
    /\ parked = Some(QueuedTask("id2", ConcQueries["id2"]))
    /\ deleter = NoDelete
    /\ call = None
    /\ invoked = {}
    /\ failed = <<>>
    /\ written = {}
    /\ snapshot = None
    /\ provider_failed = FALSE

ConcNext == Next \/ Switch

ConcSpec == ConcInit /\ [][ConcNext]_vars

(***************************************************************************)
(* The delete handler, delete_research_query, called for "id1" while the   *)
(* background task of "id1" is queued, running or done.  Its awaits are    *)
(* find_one and the two delete_one calls; it may be called again.          *)
(***************************************************************************)
DeleteTarget == "id1"

task == <<query_id, query, pc, scheduled, running, ctx, ret, parked, call, history>>

\* up to "if not query": 404 when the query record is absent
DeleteFind ==
    /\ deleter.pc \in {"idle", "deleted", "not_found"}
    /\ deleter' = [deleter EXCEPT !.pc =
                      IF find_one(store, ById(DeleteTarget)) = None
                      THEN "not_found" ELSE "found"]
    /\ UNCHANGED <<task, store>>

DeleteQuery ==
    /\ deleter.pc = "found"
    /\ store' = delete_one(store, ById(DeleteTarget), "query")
    /\ deleter' = [deleter EXCEPT !.pc = "query_deleted"]
    /\ UNCHANGED task

\* the second delete_one, after which the handler returns success
DeleteResult ==
    /\ deleter.pc = "query_deleted"
    /\ store' = delete_one(store, ById(DeleteTarget), "result")
    /\ deleter' = [pc |-> "deleted", ok |-> TRUE]
    /\ UNCHANGED task

DeleteInit ==
    /\ Submitted
    /\ parked = None
    /\ deleter = [pc |-> "idle", ok |-> FALSE]
    /\ call = None

DeleteNext == Next \/ DeleteFind \/ DeleteQuery \/ DeleteResult

DeleteSpec == DeleteInit /\ [][DeleteNext]_vars

(***************************************************************************)
(* Store calls that raise.  Every call process_research_query makes on a   *)
(* collection is inside its try block; the update of the except branch is  *)
(* inside a try of its own whose except only logs.                         *)
(***************************************************************************)
\* str(e) of an exception raised by the store driver
StoreError == Some(<<"store unavailable">>)

\* a store call of the try block raises: control goes to the except branch
StoreRaises ==
    /\ ret' = [ret EXCEPT !.error = StoreError]
    /\ pc' = "mark_failed"
    /\ UNCHANGED <<env, scheduled, running, ctx, store, history>>

\* the first update_one raises
ProcessStartRaise ==
    /\ pc = "queued"
    /\ StoreRaises

\* insert_one raises
SaveResultRaise ==
    /\ pc = "save_result"
    /\ ret.result # None
    /\ StoreRaises

\* the update_one to COMPLETED raises
MarkCompletedRaise ==
    /\ pc = "mark_completed"
    /\ StoreRaises

\* the update_one to FAILED raises: logged, and the task returns
MarkFailedRaise ==
    /\ pc = "mark_failed"
    /\ pc' = "done"
    /\ UNCHANGED <<env, scheduled, running, ctx, ret, store, history>>

StoreNext ==
    \/ Next
    \/ ProcessStartRaise
    \/ SaveResultRaise
    \/ MarkCompletedRaise
    \/ MarkFailedRaise

StoreSpec == Init /\ [][StoreNext]_vars

(***************************************************************************)
(* The agents' pure methods called on their own, on every argument up to   *)
(* the bounds: each behaviour is one call and its return.                  *)
(***************************************************************************)
\* longest clause list given to a one-list method, and to a two-list method
MaxClauses == 3

MaxPairClauses == 2

\* ExtractedClause(...) with the fields the methods read
Clause(text, ctype, topic, jurisdiction) ==
    [clause_text |-> text, len |-> 40, clause_type |-> ctype, topic |-> topic,
     jurisdiction |-> jurisdiction, document_source |-> "doc",
     confidence_score |-> Some(80)]

SampleClauses ==
    { Clause("assess risk", "requirement", "Safety", "EU"),
      Clause("log incidents", "definition", "safety", "EU"),
      Clause("no scraping", "Prohibition", "privacy", "EU"),
      Clause("test models", "requirement", "safety", "US"),
      Clause("no profiling", "prohibition", "privacy", "US"),
      Clause("publish cards", "definition", "transparency", "UK") }

Orders(S) == {s \in [1..Cardinality(S) -> S] : Range(s) = S}

\* search results by what the score depends on; the provider's score is in
\* tenths and is whatever number the provider sends
ScoredResults ==
    [title : {"result"}, kws : {{}},
     score : {None, Some(-2), Some(0), Some(4), Some(10), Some(30)},
     official : BOOLEAN, dated : BOOLEAN, long : BOOLEAN]

\* documents handed to Extract; the memo has no region
SampleDocuments ==
    { [title |-> "EU AI Act", region |-> "EU", relevance_score |-> 50],
      [title |-> "US Executive Order", region |-> "US", relevance_score |-> 90],
      [title |-> "Unlabelled memo", region |-> "", relevance_score |-> 0] }

\* values of max_documents a request may carry: Optional[int], not validated
MaxDocumentsInputs == {None, Some(0), Some(1), Some(2), Some(-1)}

\* the calls of a method: its arguments, no return value yet
Call(op, args) == [op |-> op, args |-> args, result |-> None]

CallsOf(op) ==
    CASE op = "similarity" ->
            {Call(op, <<x, y>>) : x \in SeqsUpTo(SampleClauses, MaxPairClauses),
                                  y \in SeqsUpTo(SampleClauses, MaxPairClauses)}
      [] op \in {"gaps", "group", "scores"} ->
            {Call(op, <<x>>) : x \in SeqsUpTo(SampleClauses, MaxClauses)}
      [] op = "search" ->
            {Call(op, <<r, regions>>) :
                r \in SearchResponses, regions \in {q.regions : q \in Queries}}
      [] op = "search_node" ->
            {Call(op, <<r, m>>) : r \in SearchResponses, m \in MaxDocumentsInputs}
      [] op = "score" ->
            {Call(op, <<r>>) : r \in ScoredResults}
      [] op = "extract_node" ->
            UNION {{Call(op, <<d, r>>) : r \in [1..Len(d) -> ExtractResponses]} :
                      d \in SeqsUpTo(SampleDocuments, MaxResults)}

workflow == <<query_id, query, pc, scheduled, running, ctx, ret, store, parked,
              deleter, history>>

Calling(op) == call # None /\ Val(call).op = op /\ Val(call).result = None

Returns(value) ==
    /\ call' = Some([Val(call) EXCEPT !.result = Some(value)])
    /\ UNCHANGED workflow

ReturnSimilarity ==
    /\ Calling("similarity")
    /\ Returns(_calculate_jurisdiction_similarity(Val(call).args[1], Val(call).args[2]))

ReturnGaps ==
    /\ Calling("gaps")
    /\ \E order \in Orders(AllTopics(Val(call).args[1])) :
          Returns(identify_regulatory_gaps(Val(call).args[1], order))

ReturnGroups ==
    /\ Calling("group")
    /\ Returns(_group_clauses(Val(call).args[1]))

ReturnDocuments ==
    /\ Calling("search")
    /\ Returns(_process_search_results(Val(call).args[1], Val(call).args[2]))

\* run_research and _search_node on a query without regions: the documents
\* the state holds after the search collaborator has answered
ReturnSearchNode ==
    /\ Calling("search_node")
    /\ LET state == search_node_begin(
                        initial_state([regions       |-> None,
                                       max_documents |-> Val(call).args[2]]))
           found == search_documents(Val(call).args[1], Some(state.regions))
       IN  Returns(search_node_success(state, found).documents)

ReturnScores ==
    /\ Calling("scores")
    /\ Returns(calculate_similarity_scores(Val(call).args[1]))

ReturnScore ==
    /\ Calling("score")
    /\ Returns(_calculate_relevance_score(Val(call).args[1]))

\* _extract_node's success path: the clauses the state holds after the
\* collaborator has answered for each document
ReturnExtractNode ==
    /\ Calling("extract_node")
    /\ LET state  == extract_node_begin(
                         [initial_state(query) EXCEPT !.documents = Val(call).args[1]])
           found  == extract_clauses(state.documents, Val(call).args[2])
       IN  Returns(extract_node_success(state, validate_clauses(found)).clauses)

AgentInit ==
    /\ Submitted
    /\ query = [regions |-> None, max_documents |-> None]
    /\ parked = None
    /\ deleter = NoDelete
    /\ \E op \in {"similarity", "gaps", "group", "scores", "search",
                  "search_node", "score", "extract_node"} :
          call \in {Some(c) : c \in CallsOf(op)}

AgentNext ==
    \/ ReturnSimilarity
    \/ ReturnGaps
    \/ ReturnGroups
    \/ ReturnDocuments
    \/ ReturnSearchNode
    \/ ReturnExtractNode
    \/ ReturnScore
    \/ ReturnScores

AgentSpec == AgentInit /\ [][AgentNext]_vars

(***************************************************************************)
(* Properties of the workflow engine.                                      *)
(***************************************************************************)
StageNodes == <<"search", "extract", "compare", "summarize">>

StageIndex(node) == CHOOSE i \in 1..Len(StageNodes) : StageNodes[i] = node

ProgressKeyOf(node) ==
    [search |-> "search_agent", extract |-> "extract_agent",
     compare |-> "compare_agent", summarize |-> "summarize_agent"][node]

OutputKeyOf(node) ==
    [search |-> "documents", extract |-> "clauses",
     compare |-> "comparisons", summarize |-> "summary"][node]

FailureLabel(node) ==
    [search |-> "Search failed", extract |-> "Extraction failed",
     compare |-> "Comparison failed", summarize |-> "Summarization failed"][node]

StatusOrder == <<PENDING, SEARCHING, EXTRACTING, COMPARING, SUMMARIZING, COMPLETED>>

Terminal(status) == status \in {COMPLETED, FAILED}

\* run_research has returned or raised
RunEnded == ret.returned

\* the persisted query record of the task on the CPU (None when deleted)
QueryRecord == find_one(store, query_id)

\* C1: once a stage has recorded an error on the context, no later stage
\* and no finalize step is invoked in that run.
C1_NoNodeAfterError == [][Truthy(ctx.error) => invoked' = invoked]_vars

\* C2: if a call to the search or the text-generation collaborator raises
\* during a stage, the run ends with status Failed and returns no result.
C2_ProviderFailureFailsRun ==
    (RunEnded /\ provider_failed) => (ctx.status = FAILED /\ ret.result = None)

\* C3: the status only moves one step forward along Pending, Searching,
\* Extracting, Comparing, Summarizing, Completed, or from a non-terminal
\* status to Failed.
StatusStep(old, new) ==
    \/ new = old
    \/ \E i \in 1..(Len(StatusOrder) - 1) :
          old = StatusOrder[i] /\ new = StatusOrder[i + 1]
    \/ ~Terminal(old) /\ new = FAILED

C3_StatusForwardOnly == [][StatusStep(ctx.status, ctx'.status)]_vars

\* C4: once the status is Failed or Completed, no later step changes any
\* field of the context.
C4_TerminalContextFrozen == [][Terminal(ctx.status) => ctx' = ctx]_vars

\* C5: a stage sets its progress key to 0.0 when it starts and to 1.0 only
\* on its successful completion; the key of a stage that failed is below
\* 1.0 from then on, so also in the final context.
C5_ProgressTracksStage ==
    \A i \in 1..Len(StageNodes) :
        LET node == StageNodes[i]
            p    == ctx.progress[ProgressKeyOf(node)]
        IN  /\ running = Some(node) => p = 0
            /\ p = 1 => /\ node \in invoked
                        /\ running # Some(node)
                        /\ node \notin Range(failed)
            /\ node \in Range(failed) => p < 1

C5_Witness ==
    /\ GraphEnded
    /\ "summarize" \in Range(failed)
    /\ ctx.progress["summarize_agent"] = 0
    /\ ctx.progress["search_agent"] = 1

\* C6: in every state, in the context and in the persisted query record, a
\* progress of 1.0 for a stage implies that this stage's output has been
\* written.
C6_ProgressImpliesOutput ==
    \A i \in 1..Len(StageNodes) :
        LET node == StageNodes[i]
            done == \/ ctx.progress[ProgressKeyOf(node)] = 1
                    \/ /\ QueryRecord # None
                       /\ Val(QueryRecord).progress # None
                       /\ Val(Val(QueryRecord).progress)[ProgressKeyOf(node)] = 1
        IN  done => /\ OutputKeyOf(node) \in written
                    /\ node = "summarize" => ctx.summary # None

C6_Witness ==
    /\ running = Some("extract")
    /\ ctx.progress["search_agent"] = 1
    /\ Len(ctx.documents) = MaxResults

\* C7: every started run eventually ends, with status Completed or Failed.
C7_RunTerminates == (pc = "graph") ~> (RunEnded /\ Terminal(ctx.status))

C7_Witness == RunEnded /\ Terminal(ctx.status) /\ "finalize" \in invoked

\* C8: a run that ends failed carries a non-empty error message naming the
\* first stage that recorded an error; the error raised by run and the one
\* stored in the query record carry that message.
IsSuffix(s, t) == Len(s) <= Len(t) /\ SubSeq(t, Len(t) - Len(s) + 1, Len(t)) = s

C8_ErrorNamesFirstFailedStage ==
    (pc = "done" /\ ret.error # None) =>
        /\ failed # <<>>
        /\ ctx.error # None
        /\ Val(ctx.error) # <<>>
        /\ Val(ctx.error)[1] = FailureLabel(failed[1])
        /\ IsSuffix(Val(ctx.error), Val(ret.error))
        /\ QueryRecord # None
        /\ Val(QueryRecord).error_message # None
        /\ IsSuffix(Val(ctx.error), Val(Val(QueryRecord).error_message))

\* C9: when a run fails at stage k, the outputs written before k are still
\* in the context unchanged, and the outputs of k and of the later stages
\* hold their initial empty values.
InitialOutputs ==
    [documents |-> <<>>, clauses |-> <<>>, comparisons |-> <<>>, summary |-> None]

C9_FailureKeepsOutputs ==
    (RunEnded /\ failed # <<>>) =>
        /\ Outputs(ctx) = Val(snapshot)
        /\ \A i \in StageIndex(failed[1])..Len(StageNodes) :
              Outputs(ctx)[OutputKeyOf(StageNodes[i])]
                  = InitialOutputs[OutputKeyOf(StageNodes[i])]

\* C10: run returns a result exactly when the run reached Completed with no
\* error recorded; the result then holds a Summary and all four progress
\* values are 1.0; in every other case run raises and returns no result.
C10_ResultIffCompletedClean ==
    RunEnded =>
        /\ ret.result # None <=> (ctx.status = COMPLETED /\ ctx.error = None)
        /\ ret.result # None =>
              /\ Val(ret.result).summary # None
              /\ Val(ret.result).summary = ctx.summary
              /\ \A k \in ProgressKeys : ctx.progress[k] = 1
              /\ ret.error = None
        /\ ret.result = None => ret.error # None

C10_Witness ==
    /\ RunEnded
    /\ ret.result # None
    /\ Len(Val(ret.result).documents) > 0
    /\ provider_failed

\* C11: within one run the stages are invoked in the order search, extract,
\* compare, summarize, each at most once and never while another node is
\* awaiting; a stage is invoked only after the previous stage has written
\* its output and set its progress to 1.0.
C11_StagesInOrder ==
    [][\A i \in 1..Len(StageNodes) :
          (StageNodes[i] \in invoked' /\ StageNodes[i] \notin invoked) =>
             /\ running = None
             /\ \A j \in 1..(i - 1) : StageNodes[j] \in invoked
             /\ i > 1 =>
                   /\ OutputKeyOf(StageNodes[i - 1]) \in written
                   /\ ctx.progress[ProgressKeyOf(StageNodes[i - 1])] = 1]_vars

(***************************************************************************)
(* Properties of concurrent requests.                                      *)
(***************************************************************************)
\* the records a finished task leaves when nothing else touches its id:
\* they are determined by what its own run_research returned or raised
RecordsAlone(t) ==
    IF t.ret.error = None
    THEN [query  |-> Some([status        |-> COMPLETED,
                           progress      |-> Some([k \in ProgressKeys |-> 1]),
                           error_message |-> None]),
          result |-> t.ret.result]
    ELSE [query  |-> Some([status        |-> FAILED,
                           progress      |-> None,
                           error_message |-> t.ret.error]),
          result |-> None]

Tasks == {Task} \cup (IF parked = None THEN {} ELSE {Val(parked)})

\* C12: when runs for distinct queries interleave, a step of one run leaves
\* the other run's context and the store records of every other id alone,
\* and the status, progress and result a run ends with are those its own
\* outcome determines, as when it runs alone.
C12_RunsIsolated ==
    /\ [](\A t \in Tasks : t.pc = "done" => store[t.query_id] = RecordsAlone(t))
    /\ [][/\ \A id \in QueryIds \ {query_id} : store'[id] = store[id]
          /\ query_id' = query_id => parked' = parked]_vars

C12_Witness ==
    /\ parked # None
    /\ running = Some("summarize")
    /\ Val(parked).running = Some("extract")
    /\ Val(find_one(store, "id1")).status = SEARCHING
    /\ Val(find_one(store, "id2")).status = SEARCHING

\* C13: once delete_research_query has returned success for an id, neither
\* a query record nor a result record with that id exists in the store,
\* whatever the background task of that query does meanwhile or afterwards.
C13_DeletedStaysDeleted ==
    deleter.ok =>
        /\ find_one(store, DeleteTarget) = None
        /\ store[DeleteTarget].result = None

(***************************************************************************)
(* Properties of the agents.                                               *)
(***************************************************************************)
\* the lower-cased topics of a clause list, and the jurisdictions having
\* clauses on a topic
TopicsOf(clauses) == {Lower(c.topic) : c \in Range(clauses)}

JurisdictionsOn(clauses, topic) ==
    {c.jurisdiction : c \in {d \in Range(clauses) : Lower(d.topic) = topic}}

CompareCompleted == ctx.progress["compare_agent"] = 1

\* C14: after Compare completes, the context holds exactly one Comparison
\* for each lower-cased topic with clauses from two or more jurisdictions,
\* and its jurisdictions_compared is exactly the set of jurisdictions having
\* clauses on that topic.
C14_OneComparisonPerSharedTopic ==
    CompareCompleted =>
        /\ \A t \in TopicsOf(ctx.clauses) :
              Cardinality({i \in DOMAIN ctx.comparisons : ctx.comparisons[i].topic = t})
                 = (IF Cardinality(JurisdictionsOn(ctx.clauses, t)) >= 2 THEN 1 ELSE 0)
        /\ \A i \in DOMAIN ctx.comparisons :
              /\ ctx.comparisons[i].topic \in TopicsOf(ctx.clauses)
              /\ Range(ctx.comparisons[i].jurisdictions_compared)
                    = JurisdictionsOn(ctx.clauses, ctx.comparisons[i].topic)

\* C15: Compare never produces a Comparison for a topic whose clauses all
\* come from one jurisdiction; a clause set with a single distinct
\* jurisdiction yields no Comparison at all.
C15_NoSingleJurisdictionComparison ==
    CompareCompleted =>
        /\ \A i \in DOMAIN ctx.comparisons :
              Cardinality(JurisdictionsOn(ctx.clauses, ctx.comparisons[i].topic)) >= 2
        /\ Cardinality({c.jurisdiction : c \in Range(ctx.clauses)}) <= 1
              => ctx.comparisons = <<>>

C15_Witness ==
    /\ CompareCompleted
    /\ ctx.comparisons = <<>>
    /\ Cardinality({c.jurisdiction : c \in Range(ctx.clauses)}) = 1
    /\ \E i, j \in DOMAIN ctx.clauses :
          i # j /\ Lower(ctx.clauses[i].topic) = Lower(ctx.clauses[j].topic)

\* Search has returned, and with no document
ZeroResults == "documents" \in written /\ ctx.documents = <<>>

\* the Summary text reports that nothing was analyzed: only the template
\* text is fixed by the program, and it reports the number of documents
SaysNoDocuments(summary) ==
    summary.source = "template" /\ Val(summary.counts)[1] = 0

TaskEnded == pc = "done"

UnparsableSummaries == {"nojson", "badjson", "misfit"}

\* C17: if the collaborator's answer cannot be parsed into a Summary,
\* Summarize still completes: the context gets the fallback Summary with the
\* counts of the documents, clauses and comparisons of the context, and no
\* "Summarization failed" error is recorded for such an answer.
C17_UnparsableSummaryFallsBack ==
    /\ running = Some("summarize") =>
          \A response \in UnparsableSummaries :
              /\ ~SummaryRaises(response)
              /\ generate_summary(response, ctx.documents, ctx.clauses, ctx.comparisons)
                    = [source |-> "template",
                       counts |-> Some(<<Len(ctx.documents), Len(ctx.clauses),
                                         Len(ctx.comparisons)>>)]
    /\ (Truthy(ctx.error) /\ Val(ctx.error)[1] = "Summarization failed") =>
          Val(ctx.error)[2] \notin UnparsableSummaries

\* kinds of answer to a comparison prompt that hold no Comparison
UnparsableComparisons == {"nojson", "badjson", "misfit"}

\* C18: if the collaborator's answer for a topic cannot be parsed as
\* structured output, Compare still yields a Comparison for that topic, the
\* one built from the template sentences with score 0.5, and Compare does
\* not fail.
C18_UnparsableComparisonFallsBack ==
    /\ "compare" \notin Range(failed)
    /\ running = Some("compare") =>
          \A responses \in [Range(ComparedTopics(ctx.clauses)) -> CompareResponses] :
              \A t \in DOMAIN responses :
                  responses[t].kind \in UnparsableComparisons =>
                      \E c \in Range(compare_clauses(ctx.clauses, responses)) :
                          /\ c.topic = t
                          /\ c.source = "template"
                          /\ c.comparison_score = Some(50)

\* kinds of answer to an extraction prompt whose structured parsing fails
UnparsableExtractions == {"nojson", "badjson"}

\* C19: if structured parsing of the extraction answer for a document
\* fails, Extract does not raise: the clauses of that document are those the
\* text-pattern scan finds in the answer, each with confidence 0.6.
C19_UnparsableExtractionIsScanned ==
    /\ "extract" \notin Range(failed)
    /\ running = Some("extract") =>
          \A i \in DOMAIN ctx.documents :
              \A response \in ExtractResponses :
                  response.kind \in UnparsableExtractions =>
                      LET got == _extract_from_document(response, ctx.documents[i])
                      IN  /\ got = _fallback_extraction(response, ctx.documents[i])
                          /\ \A c \in Range(got) : c.confidence_score = Some(60)

ExtractCompleted == ctx.progress["extract_agent"] = 1

\* what validation keeps, stated on the clause itself
Retained(clause) ==
    /\ clause.len > 20
    /\ clause.confidence_score # None
    /\ Val(clause.confidence_score) > 50

\* C20: every clause in the context after Extract has completed has text
\* longer than 20 characters after trimming and a confidence above 0.5; the
\* clauses failing either test, those without confidence included, are
\* dropped, the others kept in order, and Extract does not fail.
C20_ClausesValidated ==
    /\ "extract" \notin Range(failed)
    /\ ExtractCompleted => \A c \in Range(ctx.clauses) : Retained(c)
    /\ running = Some("extract") =>
          \A responses \in [1..Len(ctx.documents) -> ExtractResponses] :
              LET found == extract_clauses(ctx.documents, responses)
                  next  == extract_node_success(ctx, validate_clauses(found))
              IN  next.clauses = SelectSeq(found, Retained)

C20_Witness ==
    /\ ExtractCompleted
    /\ \E c \in Range(ctx.clauses) : c.clause_text = "must assess"
    /\ \E c \in Range(ctx.clauses) : c.confidence_score = Some(60)
    /\ \A c \in Range(ctx.clauses) : c.clause_text \notin {"brief", "unrated", "may log"}

\* C21: every Comparison in the context has a score within [0, 1], whatever
\* score the collaborator returned.
C21_ComparisonScoreInUnitInterval ==
    \A c \in Range(ctx.comparisons) :
        /\ c.comparison_score # None
        /\ Val(c.comparison_score) >= 0
        /\ Val(c.comparison_score) <= 100

(***************************************************************************)
(* Properties of the agents' pure methods.                                 *)
(***************************************************************************)
\* the call of method op has returned
Returned(op) == call # None /\ Val(call).op = op /\ Val(call).result # None

Arg(i) == Val(call).args[i]

Result == Val(Val(call).result)

\* equality of two quotients, and a quotient equal to 1.0
SameQuotient(p, q) == p[1] * q[2] = q[1] * p[2]

IsOne(p) == p[1] = p[2]

\* C22: for all clause lists X and Y, jurisdictionSimilarity(X, Y) equals
\* jurisdictionSimilarity(Y, X).
C22_SimilaritySymmetric ==
    Returned("similarity") =>
        SameQuotient(Result, _calculate_jurisdiction_similarity(Arg(2), Arg(1)))

C22_Witness ==
    /\ Returned("similarity")
    /\ Len(Arg(1)) # Len(Arg(2))
    /\ Result[1] > 0
    /\ ~IsOne(Result)

\* C23: the Jaccard similarity is 1.0 for a non-empty set compared with
\* itself and 0.0 for two empty sets, and jurisdictionSimilarity(X, X) is
\* 1.0 for every non-empty clause list X.
C23_SelfSimilarityIsOne ==
    Returned("similarity") =>
        /\ Jaccard({}, {})[1] = 0
        /\ \A A \in SUBSET AllTopics(Arg(1)) : A # {} => IsOne(Jaccard(A, A))
        /\ (Arg(1) = Arg(2) /\ Arg(1) # <<>>) => IsOne(Result)

C23_Witness ==
    /\ Returned("similarity")
    /\ Arg(1) = Arg(2)
    /\ Cardinality(AllTopics(Arg(1))) = 2
    /\ IsOne(Result)

\* the jurisdictions observed in a clause list, and those covering a topic
Observed(clauses) == {c.jurisdiction : c \in Range(clauses)}

Covering(clauses, topic) ==
    {c.jurisdiction : c \in {d \in Range(clauses) : Lower(d.topic) = topic}}

\* C24: findCoverageGaps emits exactly one statement for each lower-cased
\* topic that some observed jurisdiction covers and some other observed
\* jurisdiction does not, naming exactly the jurisdictions lacking it, and
\* none for a topic all observed jurisdictions cover; the result is empty
\* when all jurisdictions have the same topic set or only one is present.
C24_CoverageGaps ==
    Returned("gaps") =>
        LET clauses == Arg(1)
            gaps    == Result
        IN  /\ \A t \in AllTopics(clauses) :
                  Cardinality({i \in DOMAIN gaps : gaps[i].topic = t})
                     = (IF Covering(clauses, t) # Observed(clauses) THEN 1 ELSE 0)
            /\ \A i \in DOMAIN gaps :
                  /\ gaps[i].topic \in AllTopics(clauses)
                  /\ Range(gaps[i].missing)
                        = Observed(clauses) \ Covering(clauses, gaps[i].topic)
                  /\ Len(gaps[i].missing) = Cardinality(Range(gaps[i].missing))
            /\ Cardinality(Observed(clauses)) <= 1 => gaps = <<>>
            /\ (\A t \in AllTopics(clauses) : Covering(clauses, t) = Observed(clauses))
                  => gaps = <<>>

C24_Witness ==
    /\ Returned("gaps")
    /\ Result # <<>>
    /\ Cardinality(Observed(Arg(1))) = 2
    /\ \E t \in AllTopics(Arg(1)) : Covering(Arg(1), t) = Observed(Arg(1))

\* the documents _process_search_results builds, in the collaborator's order
Discovered(results, regions) ==
    [i \in 1..Len(results) |-> MakeDocument(results[i], regions)]

\* C25: the documents produced by Search are ordered by non-increasing
\* relevance score, and documents with equal scores keep the order in which
\* the search collaborator returned them.
C25_SortedStable ==
    Returned("search") =>
        LET found == Discovered(Arg(1), Arg(2))
            docs  == Result
        IN  /\ Len(docs) = Len(found)
            /\ \A i, j \in DOMAIN docs :
                  i < j => docs[i].relevance_score >= docs[j].relevance_score
            /\ \E p \in Permutations(DOMAIN found) :
                  /\ \A i \in DOMAIN docs : docs[i] = found[p[i]]
                  /\ \A i, j \in DOMAIN docs :
                        (i < j /\ docs[i].relevance_score = docs[j].relevance_score)
                           => p[i] < p[j]

C25_Witness ==
    /\ Returned("search")
    /\ Len(Result) = MaxResults
    /\ Result[1].relevance_score = Result[2].relevance_score
    /\ Result[1].title # Result[2].title

\* the groups flattened back into one sequence
FlattenGroups(grouped) ==
    Flatten([i \in 1..Len(grouped) |->
                Flatten([k \in 1..Len(grouped[i].jurisdictions) |->
                            grouped[i].jurisdictions[k].clauses])])

\* C26: grouping clauses by topic and jurisdiction, flattening the groups
\* and grouping again gives the identical grouping: the same keys and in
\* each bucket the same clauses in the same order.
C26_GroupingIdempotent ==
    Returned("group") => _group_clauses(FlattenGroups(Result)) = Result

C26_Witness ==
    /\ Returned("group")
    /\ FlattenGroups(Result) # Arg(1)
    /\ \E i \in DOMAIN Result :
          /\ Len(Result[i].jurisdictions) = 2
          /\ Len(Result[i].jurisdictions[1].clauses) = 2

\* control is between two workflow steps: a node has returned and the next
\* has not started, or the run has ended
BetweenSteps == invoked # {} /\ running = None /\ pc \in {"graph", "save_result", "mark_completed", "mark_failed", "done"}

\* C27: whenever control is between two workflow steps, and at the end of
\* the run, the context's error is set exactly when its status is Failed.
C27_ErrorIffFailed ==
    BetweenSteps => (Truthy(ctx.error) <=> ctx.status = FAILED)

\* the persisted query record and result record of an id
StoredQuery(id) == store[id].query

StoredResult(id) == store[id].result

HasStatus(id, status) ==
    StoredQuery(id) # None /\ Val(StoredQuery(id)).status = status

\* C28: whenever the persisted query record has status completed, a result
\* record with the same id exists and the persisted progress is 1.0 for all
\* four stages.
C28_CompletedHasResult ==
    \A id \in QueryIds :
        HasStatus(id, COMPLETED) =>
            /\ StoredResult(id) # None
            /\ Val(StoredQuery(id)).progress = Some([k \in ProgressKeys |-> 1])

C28_Witness ==
    /\ pc = "done"
    /\ HasStatus(query_id, COMPLETED)
    /\ StoredResult(query_id) # None

\* C29: whenever the persisted query record has status failed, its
\* error_message is set and no result record with that id exists.
C29_FailedHasNoResult ==
    \A id \in QueryIds :
        HasStatus(id, FAILED) =>
            /\ Val(StoredQuery(id)).error_message # None
            /\ StoredResult(id) = None

\* C30: every background run ends with the persisted query status set to
\* completed or failed: once the task has finished, the status is not still
\* pending or searching.
C30_TaskEndsTerminal ==
    TaskEnded =>
        /\ QueryRecord # None
        /\ Terminal(Val(QueryRecord).status)

\* the position of a persisted status in pending, searching, completed/failed
PersistedRank(status) ==
    CASE status = PENDING   -> 1
      [] status = SEARCHING -> 2
      [] status = COMPLETED -> 3
      [] status = FAILED    -> 3
      [] OTHER              -> 0

PersistedStatusOk(id) ==
    StoredQuery(id) # None =>
        /\ PersistedRank(Val(StoredQuery(id)).status) > 0
        /\ Val(StoredQuery(id)).status # COMPLETED
              => Val(StoredQuery(id)).progress = None

PersistedStatusStep(id) ==
    (StoredQuery(id) # None /\ StoredQuery(id)' # None) =>
        LET old == Val(StoredQuery(id)).status
            new == Val(StoredQuery(id)').status
        IN  \/ new = old
            \/ PersistedRank(new) > PersistedRank(old)

RequestedMaximum(max_documents) ==
    IF max_documents = None THEN DefaultMaxDocuments ELSE Val(max_documents)

\* C32: after Search completes, the context holds the first
\* min(n, max_documents) documents of the score-sorted list of the n
\* processed search results, so never more than max_documents documents
\* (10 when the query gives none).
C32_DocumentsTruncated ==
    Returned("search_node") =>
        LET sorted  == _process_search_results(Arg(1), Some(<<>>))
            maximum == RequestedMaximum(Arg(2))
        IN  /\ Result = SubSeq(sorted, 1, Min(Len(sorted), maximum))
            /\ Len(Result) <= maximum

\* the search result a document was built from matches no region keyword
MatchesNoKeyword(document) ==
    \E r \in RawResults : r.title = document.title /\ r.kws = {}

\* C33: for a query submitted without regions, a search result whose
\* content and URL match none of the EU, US or UK keywords becomes a
\* Document with region "Global".
C33_NoRegionsMeansGlobal ==
    (query.regions = None /\ "documents" \in written) =>
        \A d \in Range(ctx.documents) :
            MatchesNoKeyword(d) => d.region = "Global"

\* the clause names the document as its source and carries its region, or
\* "Unknown" when the document has none
FromDocument(clause, document) ==
    /\ clause.document_source = document.title
    /\ clause.jurisdiction
          = (IF document.region = "" THEN "Unknown" ELSE document.region)

\* the clauses can be read off the documents from first to last
RECURSIVE InDocumentOrder(_, _)
InDocumentOrder(clauses, documents) ==
    IF clauses = <<>> THEN TRUE
    ELSE IF documents = <<>> THEN FALSE
    ELSE IF FromDocument(Head(clauses), Head(documents))
         THEN InDocumentOrder(Tail(clauses), documents)
         ELSE InDocumentOrder(clauses, Tail(documents))

\* C34: every clause produced by Extract has as jurisdiction the region of
\* the document it was extracted from, or "Unknown" when that document has
\* no region, and the clauses appear in the context in the order of their
\* source documents.
C34_ClausesFollowDocuments ==
    Returned("extract_node") => InDocumentOrder(Result, Arg(1))

C34_Witness ==
    /\ Returned("extract_node")
    /\ Len(Arg(1)) = 2
    /\ Arg(1)[1].region = ""
    /\ Arg(1)[2].region = "EU"
    /\ \E i, j \in DOMAIN Result :
          /\ i < j
          /\ Result[i].jurisdiction = "Unknown"
          /\ Result[j].jurisdiction = "EU"

\* C35: the relevance score of a document is min(1.0, 0.5 x provider
\* relevance + 0.3 if its URL is on the authoritative-domain list + 0.1 if
\* its content is longer than 1000 characters), with no other contribution,
\* and so lies in [0, 1] for every search result.
C35_RelevanceScore ==
    Returned("score") =>
        LET result   == Arg(1)
            provider == IF result.score = None THEN 0 ELSE Val(result.score) * 5
        IN  /\ Result = Min(100, provider
                                 + (IF result.official THEN 30 ELSE 0)
                                 + (IF result.long THEN 10 ELSE 0))
            /\ Result >= 0
            /\ Result <= 100

\* the lower-cased topics and clause types of a clause list
TopicSet(clauses) == {Lower(c.topic) : c \in Range(clauses)}

TypeSet(clauses) == {LowerType(c.clause_type) : c \in Range(clauses)}

\* C36: jurisdictionSimilarity(A, B) equals 0.7 x Jaccard(topics of A,
\* topics of B) + 0.3 x Jaccard(clause types of A, clause types of B) over
\* lower-cased sets, so that duplicate clauses with the same topic and type
\* do not change the value; it is 0 when either clause list is empty and
\* always lies in [0, 1].
C36_SimilarityFormula ==
    Returned("similarity") =>
        LET A  == Arg(1)
            B  == Arg(2)
            tn == Cardinality(TopicSet(A) \cap TopicSet(B))
            td == Cardinality(TopicSet(A) \cup TopicSet(B))
            yn == Cardinality(TypeSet(A) \cap TypeSet(B))
            yd == Cardinality(TypeSet(A) \cup TypeSet(B))
        IN  /\ Result[2] > 0
            /\ Result[1] >= 0
            /\ Result[1] <= Result[2]
            /\ (A = <<>> \/ B = <<>>) => Result[1] = 0
            /\ (A # <<>> /\ B # <<>>) =>
                  /\ Result[1] * (10 * td * yd) = Result[2] * (7 * tn * yd + 3 * yn * td)
                  /\ SameQuotient(Result,
                        _calculate_jurisdiction_similarity(A \o <<A[1]>>, B \o B))

C36_Witness ==
    /\ Returned("similarity")
    /\ Len(Arg(1)) = 2
    /\ ~SameQuotient(Jaccard(TopicSet(Arg(1)), TopicSet(Arg(2))),
                     Jaccard(TypeSet(Arg(1)), TypeSet(Arg(2))))
    /\ \E c \in Range(Arg(2)) : c.clause_type = "Prohibition"
    /\ TopicSet(Arg(1)) # TopicSet(Arg(2))
    /\ Result[1] > 0
    /\ ~IsOne(Result)

\* the position at which a jurisdiction is first encountered in the input
FirstSeen(clauses, jurisdiction) ==
    CHOOSE i \in DOMAIN clauses :
        /\ clauses[i].jurisdiction = jurisdiction
        /\ \A k \in 1..(i - 1) : clauses[k].jurisdiction # jurisdiction

\* C37: allPairwiseSimilarities returns exactly one entry for every
\* unordered pair of distinct jurisdictions in the input (n(n-1)/2 entries
\* for n jurisdictions, none for a single jurisdiction), keyed "A_vs_B"
\* where A was first encountered before B in the input, and the entry's
\* value is jurisdictionSimilarity of the two jurisdictions' clauses.
C37_PairwiseSimilarities ==
    Returned("scores") =>
        LET clauses == Arg(1)
            scores  == Result
            n       == Cardinality(Observed(clauses))
            Of(j)   == SelectSeq(clauses, LAMBDA c : c.jurisdiction = j)
        IN  /\ 2 * Len(scores) = n * (n - 1)
            /\ \A a, b \in Observed(clauses) :
                  a # b =>
                     Cardinality({i \in DOMAIN scores :
                                     {scores[i].key[1], scores[i].key[3]} = {a, b}}) = 1
            /\ \A i \in DOMAIN scores :
                  LET a == scores[i].key[1]
                      b == scores[i].key[3]
                  IN  /\ scores[i].key[2] = "_vs_"
                      /\ a \in Observed(clauses)
                      /\ b \in Observed(clauses)
                      /\ a # b
                      /\ FirstSeen(clauses, a) < FirstSeen(clauses, b)
                      /\ scores[i].value
                            = _calculate_jurisdiction_similarity(Of(a), Of(b))

C37_Witness ==
    /\ Returned("scores")
    /\ Len(Result) = 3
    /\ Result[1].key = <<"US", "_vs_", "EU">>
    /\ Result[1].value[1] > 0

\* the buckets of a grouping, as [topic, jurisdiction, clauses] records
Buckets(grouped) ==
    Flatten([i \in 1..Len(grouped) |->
                [k \in 1..Len(grouped[i].jurisdictions) |->
                    [topic        |-> grouped[i].topic,
                     jurisdiction |-> grouped[i].jurisdictions[k].jurisdiction,
                     clauses      |-> grouped[i].jurisdictions[k].clauses]]])

\* C38: groupByTopicAndJurisdiction places every input clause in exactly
\* one bucket, the one keyed by its lower-cased topic and its jurisdiction,
\* so topics differing only in letter case share a bucket; within each
\* bucket the clauses keep their input order, and no clause is lost or
\* duplicated.
C38_GroupingPartitions ==
    Returned("group") =>
        LET clauses == Arg(1)
            buckets == Buckets(Result)
        IN  /\ \A i, k \in DOMAIN buckets :
                  (buckets[i].topic = buckets[k].topic
                     /\ buckets[i].jurisdiction = buckets[k].jurisdiction) => i = k
            /\ \A i \in DOMAIN buckets :
                  buckets[i].clauses
                     = SelectSeq(clauses,
                                 LAMBDA c : /\ Lower(c.topic) = buckets[i].topic
                                            /\ c.jurisdiction = buckets[i].jurisdiction)
            /\ \A p \in DOMAIN clauses :
                  \E i \in DOMAIN buckets :
                      /\ buckets[i].topic = Lower(clauses[p].topic)
                      /\ buckets[i].jurisdiction = clauses[p].jurisdiction
            /\ Len(FlattenGroups(Result)) = Len(clauses)

C38_Witness ==
    /\ Returned("group")
    /\ Len(Result) = 2
    /\ \E i \in DOMAIN Buckets(Result) :
          LET b == Buckets(Result)[i]
          IN  /\ Len(b.clauses) = 2
              /\ b.clauses[1].topic # b.clauses[2].topic

====
